---- MODULE Spec2Model ----
(***************************************************************************)
(* Lifecycle manager (src/src/bot/bot_manager.py, BotManager) and the bot  *)
(* worker (src/src/bot/whatsapp_automation.py, WhatsAppBot) as a state     *)
(* machine.  Manager operations are run by caller threads and are split    *)
(* at the points where another thread can interleave (main.py runs         *)
(* start_bot on one thread per bot and stop_all_bots on the main thread).  *)
(* Every start_bot allocates one threading.Event and, with it, one         *)
(* WhatsAppBot object; both are named by the same index 1..MaxWorkers.     *)
(* datetime.now() is abstracted to the single stamp "now".                 *)
(***************************************************************************)
EXTENDS Integers, Sequences, FiniteSets, TLC

\* ---------------------------------------------------------------- bounds
MaxWorkers == 2       \* Event/WhatsAppBot objects created in one behaviour
MaxChats == 2         \* unread chats returned by one _get_unread_chats
MaxMsgs == 1          \* unread messages of one chat
MaxProcessed == 1     \* cap of processed_count
IdleInterval == 1     \* IDLE_CHECK_INTERVAL_SECONDS (environment setting)

Ids == {"A", "B"}
\* threads that call the manager: the main thread, and a thread that main.py
\* starts to run start_bot (main.py lines 69-74)
Callers == {"main", "starter"}
Workers == 1..MaxWorkers

VARIABLES
    bots,          \* BotManager.bots: id -> WhatsAppBot index, 0 = no key
    botsOrder,     \* insertion order of the keys of BotManager.bots
    bot_threads,   \* BotManager.bot_threads: id -> thread index, 0 = no key
    stop_events,   \* BotManager.stop_events: id -> Event index, 0 = no key
    bot_statuses,  \* BotManager.bot_statuses (defaultdict): id -> record
    stop_event,    \* Event index -> is_set()
    worker,        \* WhatsAppBot index -> object fields and position of run()
    nAlloc,        \* number of Event objects created so far
    caller,        \* caller thread -> operation in progress and its locals
    observed,      \* history: live workers that have read their Event as set
    leaked,        \* history: live workers that a stop_bot timed out on
    appended,      \* history: id -> number of entries add_bot_log appended
    view,          \* caller thread -> the dict a status query returned to it
    message,       \* the text given to process_text_message
    records,       \* what the lookups of invoices and courses meet
    result,        \* the dict process_text_message returned
    ran,           \* history: the handlers that call ran, in order
    asked,         \* history: the questions that call gave to the RAG engine
    raised,        \* history: the calls of that turn in which an exception rose
    retrieved,     \* history: what the RAG engine returned to that call
    extracted,     \* outputs of extract_question_from_message, applied in turn
    retrieval,     \* what one call of RAGEngine.query is given and meets
    reply,         \* what that call returned, and what it did on the way
    qa_chain,      \* RAGEngine.qa_chain of the singleton: salutation in its prompt
    queries        \* calls of RAGEngine.query in progress, by calling thread

vars == <<bots, botsOrder, bot_threads, stop_events, bot_statuses, stop_event,
          worker, nAlloc, caller, observed, leaked, appended, view, message,
          records, result, ran, asked, raised, retrieved, extracted,
          retrieval, reply, qa_chain, queries>>

registry == <<bots, botsOrder, bot_threads, stop_events, bot_statuses>>

\* the variables of the manager, its callers and its workers
manager == <<bots, botsOrder, bot_threads, stop_events, bot_statuses,
             stop_event, worker, nAlloc, caller, observed, leaked, appended,
             view>>

\* the variables of one conversation turn
turn == <<message, records, result, ran, asked, raised, retrieved,
          extracted>>

\* what no step of start_bot, stop_bot or of a worker writes
rest == <<appended, view, message, records, result, ran, asked, raised,
          retrieved, extracted, retrieval, reply, qa_chain, queries>>

\* the variables of the retrieval engine and of the calls of its query
engine == <<retrieval, reply, qa_chain, queries>>

\* ------------------------------------------------------------ BotRecord
DefaultStatus ==
    [name |-> "", status |-> "Stopped", start_time |-> "None",
     stop_time |-> "None", processed_count |-> 0, unread_count |-> 0,
     logs |-> <<>>]

\* bot_statuses[id] on a defaultdict: a missing key is created on access
Touch(st, id) ==
    IF id \in DOMAIN st THEN st ELSE st @@ (id :> DefaultStatus)

StatusOf(id) ==
    IF id \in DOMAIN bot_statuses THEN bot_statuses[id].status ELSE "absent"

\* --------------------------------------------------------------- worker
NoWorker ==
    [name |-> "", driver |-> FALSE, pc |-> "none", chats |-> 0, msgs |-> 0,
     k |-> 0, tmp |-> 0, err |-> FALSE, sent |-> FALSE]

\* threading.Thread.is_alive(): started and run() not yet returned
Alive(w) == w # 0 /\ worker[w].pc \notin {"none", "created", "done"}

LiveWorkers(id) == {w \in Workers : Alive(w) /\ worker[w].name = id}

is_running(w) == worker[w].driver /\ ~stop_event[w]

\* ---------------------------------------------------------------- callers
IdleCaller ==
    [op |-> "none", id |-> "", pc |-> "idle", ev |-> 0, th |-> 0,
     todo |-> <<>>, all_stopped |-> TRUE, ret |-> FALSE,
     snap |-> {}, attempts |-> <<>>, tried_start |-> FALSE,
     tmp |-> 0, size |-> 0, copies |-> <<>>, instants |-> <<>>]

\* start_bot/restart_bot calls in flight that have not created their Event
Pending ==
    Cardinality({c \in Callers :
        /\ caller[c].op \in {"start", "restart"}
        /\ caller[c].pc # "idle"
        /\ caller[c].ev = 0})

\* a thread that holds no result of a status query
NoView == [op |-> "none"]

\* what a lookup of the student repository meets: rows of the contact, no
\* row, or a query that raises
Lookups == {"rows", "none", "raises"}

\* a contact with no invoice and no course row
NoRecords == [invoice |-> "none", academic |-> "none"]

\* no call of process_text_message has returned
NoResult == [message_type |-> "none"]
NoRetrieval == [store |-> FALSE]
NoReply == [answer |-> "none"]

\* rag_engine.py line 38 (qa_chain is None) and no query in progress
InitEngine ==
    /\ retrieval = NoRetrieval
    /\ reply = NoReply
    /\ qa_chain = "None"
    /\ queries = <<>>

InitManager ==
    /\ bots = [i \in Ids |-> 0]
    /\ botsOrder = <<>>
    /\ bot_threads = [i \in Ids |-> 0]
    /\ stop_events = [i \in Ids |-> 0]
    /\ bot_statuses = <<>>
    /\ stop_event = [e \in Workers |-> FALSE]
    /\ worker = [w \in Workers |-> NoWorker]
    /\ nAlloc = 0
    /\ caller = [c \in Callers |-> IdleCaller]
    /\ observed = {}
    /\ leaked = {}
    /\ appended = [i \in Ids |-> 0]
    /\ view = [c \in Callers |-> NoView]

Init ==
    /\ InitManager
    /\ message = ""
    /\ records = NoRecords
    /\ result = NoResult
    /\ ran = <<>>
    /\ asked = <<>>
    /\ raised = <<>>
    /\ retrieved = <<>>
    /\ extracted = <<>>
    /\ InitEngine


\* ------------------------------------------------- return of a sub-call
\* the operation returns val: its locals are gone, the caller is idle again
Returned(d, val) ==
    [IdleCaller EXCEPT !.op = d.op, !.id = IF d.op = "stop_all" THEN "" ELSE d.id,
                       !.ret = val]

\* variant: the flag takes the result of the last stop_bot
AllStoppedAfter_Last(all, r) == r

\* variant: restart_bot goes on to start_bot whatever stop_bot returned
RestartContinues_Always(r) == TRUE

\* stop_all_bots: all_stopped stays True only if stop_bot returned True
AllStoppedAfter(all, r) == IF ~r THEN FALSE ELSE all

\* restart_bot: a failed stop_bot returns False before start_bot is called
RestartContinues(r) == r

\* stop_bot returns val to the operation that called it
AfterStop(d, val) ==
    CASE d.op = "stop" -> Returned(d, val)
      [] d.op = "stop_all" ->
            [d EXCEPT !.pc = "all_next",
                      !.all_stopped = AllStoppedAfter(@, val),
                      !.attempts = Append(@, <<d.id, val>>)]
      [] d.op = "restart" ->
            IF RestartContinues(val)
            THEN [d EXCEPT !.pc = "start_check",
                           !.attempts = Append(@, <<d.id, val>>)]
            ELSE Returned(d, FALSE)

\* start_bot returns val (restart_bot returns the result of start_bot)
AfterStart(d, val) == Returned(d, val)

Remove(seq, id) == SelectSeq(seq, LAMBDA x : x # id)

\* history: err marks a worker that took the handler of run (lines 79-81);
\* a later start_bot or stop_bot that writes the record of id clears it
ClearErr(wk, id) ==
    [w \in Workers |-> IF wk[w].name = id THEN [wk[w] EXCEPT !.err = FALSE]
                       ELSE wk[w]]

\* ------------------------------------------------------------- start_bot
Call_start_bot(c, id) ==
    /\ caller[c].pc = "idle"
    /\ nAlloc + Pending < MaxWorkers
    /\ caller' = [caller EXCEPT ![c] =
                    [IdleCaller EXCEPT !.op = "start", !.id = id,
                                       !.pc = "start_check"]]
    /\ UNCHANGED <<registry, stop_event, worker, nAlloc, observed, leaked,
                   rest>>

\* line 45: the guard of start_bot
AlreadyRunning(id) == bots[id] # 0 /\ is_running(bots[id])

\* lines 45-47
start_check(c) ==
    LET d == caller[c] IN
    /\ d.pc = "start_check"
    /\ caller' = [caller EXCEPT ![c] =
                    IF AlreadyRunning(d.id)
                    THEN AfterStart([d EXCEPT !.tried_start = TRUE], FALSE)
                    ELSE [d EXCEPT !.pc = "start_event",
                                   !.tried_start = TRUE]]
    /\ UNCHANGED <<registry, stop_event, worker, nAlloc, observed, leaked,
                   rest>>

\* lines 52-53: a fresh, unset Event replaces stop_events[id]
start_event(c) ==
    LET d == caller[c]
        e == nAlloc + 1 IN
    /\ d.pc = "start_event"
    /\ nAlloc < MaxWorkers
    /\ nAlloc' = e
    /\ stop_event' = [stop_event EXCEPT ![e] = FALSE]
    /\ stop_events' = [stop_events EXCEPT ![d.id] = e]
    /\ caller' = [caller EXCEPT ![c] = [d EXCEPT !.pc = "start_status",
                                                 !.ev = e]]
    /\ UNCHANGED <<bots, botsOrder, bot_threads, bot_statuses, worker,
                   observed, leaked, rest>>

\* lines 56-62
start_status(c) ==
    LET d == caller[c] IN
    /\ d.pc = "start_status"
    /\ bot_statuses' =
         [Touch(bot_statuses, d.id) EXCEPT ![d.id] =
            [@ EXCEPT !.name = d.id, !.status = "Starting",
                      !.start_time = "now", !.stop_time = "None",
                      !.processed_count = 0]]
    /\ caller' = [caller EXCEPT ![c] = [d EXCEPT !.pc = "start_construct"]]
    /\ worker' = ClearErr(worker, d.id)
    /\ UNCHANGED <<bots, botsOrder, bot_threads, stop_events, stop_event,
                   nAlloc, observed, leaked, rest>>

\* lines 65-72: WhatsAppBot(...) is built and registered, or its constructor
\* raises and the handler of lines 86-89 sets "Error"
start_construct(c) ==
    LET d == caller[c] IN
    /\ d.pc = "start_construct"
    /\ \/ /\ worker' = [worker EXCEPT ![d.ev] =
                          [NoWorker EXCEPT !.name = d.id, !.pc = "created"]]
          /\ bots' = [bots EXCEPT ![d.id] = d.ev]
          /\ botsOrder' = IF bots[d.id] # 0 THEN botsOrder
                          ELSE Append(botsOrder, d.id)
          /\ caller' = [caller EXCEPT ![c] = [d EXCEPT !.pc = "start_thread"]]
          /\ UNCHANGED bot_statuses
       \/ /\ bot_statuses' = [Touch(bot_statuses, d.id) EXCEPT ![d.id] =
                                [@ EXCEPT !.status = "Error"]]
          /\ caller' = [caller EXCEPT ![c] = AfterStart(d, FALSE)]
          /\ worker' = ClearErr(worker, d.id)
          /\ UNCHANGED <<bots, botsOrder>>
    /\ UNCHANGED <<bot_threads, stop_events, stop_event, nAlloc, observed,
                   leaked, rest>>

\* lines 75-80: bot_thread.start()
start_thread(c) ==
    LET d == caller[c] IN
    /\ d.pc = "start_thread"
    /\ worker' = [worker EXCEPT ![d.ev].pc = "run"]
    /\ caller' = [caller EXCEPT ![c] = [d EXCEPT !.pc = "start_register"]]
    /\ UNCHANGED <<registry, stop_event, nAlloc, observed, leaked, rest>>

\* lines 81-84
start_register(c) ==
    LET d == caller[c] IN
    /\ d.pc = "start_register"
    /\ bot_threads' = [bot_threads EXCEPT ![d.id] = d.ev]
    /\ caller' = [caller EXCEPT ![c] = AfterStart(d, TRUE)]
    /\ UNCHANGED <<bots, botsOrder, stop_events, bot_statuses, stop_event,
                   worker, nAlloc, observed, leaked, rest>>

\* -------------------------------------------------------------- stop_bot
Call_stop_bot(c, id) ==
    /\ caller[c].pc = "idle"
    /\ caller' = [caller EXCEPT ![c] =
                    [IdleCaller EXCEPT !.op = "stop", !.id = id,
                                       !.pc = "stop_check"]]
    /\ UNCHANGED <<registry, stop_event, worker, nAlloc, observed, leaked,
                   rest>>

\* lines 103-105
stop_check(c) ==
    LET d == caller[c] IN
    /\ d.pc = "stop_check"
    /\ caller' = [caller EXCEPT ![c] =
                    IF bots[d.id] = 0 THEN AfterStop(d, FALSE)
                    ELSE [d EXCEPT !.pc = "stop_signal"]]
    /\ UNCHANGED <<registry, stop_event, worker, nAlloc, observed, leaked,
                   rest>>

\* lines 110-111
stop_signal(c) ==
    LET d == caller[c] IN
    /\ d.pc = "stop_signal"
    /\ stop_event' = IF stop_events[d.id] # 0
                     THEN [stop_event EXCEPT ![stop_events[d.id]] = TRUE]
                     ELSE stop_event
    /\ caller' = [caller EXCEPT ![c] = [d EXCEPT !.pc = "stop_thread"]]
    /\ UNCHANGED <<registry, worker, nAlloc, observed, leaked, rest>>

\* lines 114-115: the thread handle is read once, before the wait
stop_thread(c) ==
    LET d == caller[c] IN
    /\ d.pc = "stop_thread"
    /\ caller' = [caller EXCEPT ![c] =
                    IF bot_threads[d.id] # 0
                    THEN [d EXCEPT !.pc = "stop_join", !.th = bot_threads[d.id]]
                    ELSE [d EXCEPT !.pc = "stop_status"]]
    /\ UNCHANGED <<registry, stop_event, worker, nAlloc, observed, leaked,
                   rest>>

\* lines 116-120: join returns when the thread has ended, or the timeout
\* expires with the thread alive and stop_bot returns False
stop_join(c) ==
    LET d == caller[c] IN
    /\ d.pc = "stop_join"
    /\ \/ /\ ~Alive(d.th)
          /\ caller' = [caller EXCEPT ![c] = [d EXCEPT !.pc = "stop_status"]]
          /\ UNCHANGED leaked
       \/ /\ Alive(d.th)
          /\ caller' = [caller EXCEPT ![c] = AfterStop(d, FALSE)]
          /\ leaked' = leaked \cup {d.th}
    /\ UNCHANGED <<registry, stop_event, worker, nAlloc, observed, rest>>

\* lines 123-126
stop_status(c) ==
    LET d == caller[c] IN
    /\ d.pc = "stop_status"
    /\ bot_statuses' =
         [Touch(bot_statuses, d.id) EXCEPT ![d.id] =
            [@ EXCEPT !.status = "Stopped", !.stop_time = "now"]]
    /\ caller' = [caller EXCEPT ![c] = [d EXCEPT !.pc = "stop_del_bot"]]
    /\ worker' = ClearErr(worker, d.id)
    /\ UNCHANGED <<bots, botsOrder, bot_threads, stop_events, stop_event,
                   nAlloc, observed, leaked, rest>>

\* lines 129-130
stop_del_bot(c) ==
    LET d == caller[c] IN
    /\ d.pc = "stop_del_bot"
    /\ bots' = [bots EXCEPT ![d.id] = 0]
    /\ botsOrder' = Remove(botsOrder, d.id)
    /\ caller' = [caller EXCEPT ![c] = [d EXCEPT !.pc = "stop_del_thread"]]
    /\ UNCHANGED <<bot_threads, stop_events, bot_statuses, stop_event,
                   worker, nAlloc, observed, leaked, rest>>

\* lines 131-135
stop_del_thread(c) ==
    LET d == caller[c] IN
    /\ d.pc = "stop_del_thread"
    /\ bot_threads' = [bot_threads EXCEPT ![d.id] = 0]
    /\ caller' = [caller EXCEPT ![c] = AfterStop(d, TRUE)]
    /\ UNCHANGED <<bots, botsOrder, stop_events, bot_statuses, stop_event,
                   worker, nAlloc, observed, leaked, rest>>

\* --------------------------------------------------------- stop_all_bots
\* line 154: list(self.bots.keys()) is taken once
Call_stop_all_bots(c) ==
    /\ caller[c].pc = "idle"
    /\ caller' = [caller EXCEPT ![c] =
                    [IdleCaller EXCEPT !.op = "stop_all", !.pc = "all_next",
                                       !.todo = botsOrder,
                                       !.snap = {i \in Ids : bots[i] # 0}]]
    /\ UNCHANGED <<registry, stop_event, worker, nAlloc, observed, leaked,
                   rest>>

\* lines 154-163: the next name of the list, or the return of all_stopped
all_next(c) ==
    LET d == caller[c] IN
    /\ d.pc = "all_next"
    /\ caller' = [caller EXCEPT ![c] =
                    IF d.todo = <<>>
                    THEN Returned(d, d.all_stopped)
                    ELSE [d EXCEPT !.pc = "stop_check", !.id = Head(d.todo),
                                   !.todo = Tail(d.todo), !.th = 0]]
    /\ UNCHANGED <<registry, stop_event, worker, nAlloc, observed, leaked,
                   rest>>

\* ----------------------------------------------------------- restart_bot
Call_restart_bot(c, id) ==
    /\ caller[c].pc = "idle"
    /\ nAlloc + Pending < MaxWorkers
    /\ caller' = [caller EXCEPT ![c] =
                    [IdleCaller EXCEPT !.op = "restart", !.id = id,
                                       !.pc = "restart_check"]]
    /\ UNCHANGED <<registry, stop_event, worker, nAlloc, observed, leaked,
                   rest>>

\* lines 179-184
restart_check(c) ==
    LET d == caller[c] IN
    /\ d.pc = "restart_check"
    /\ caller' = [caller EXCEPT ![c] =
                    [d EXCEPT !.pc = IF bots[d.id] # 0 THEN "stop_check"
                                     ELSE "start_check"]]
    /\ UNCHANGED <<registry, stop_event, worker, nAlloc, observed, leaked,
                   rest>>

\* ----------------------------------------------------------- add_bot_log
LogCap == 50          \* line 227: the capacity of the log of a record
MaxAppended == 52     \* entries appended to one log in one behaviour

\* add_bot_log(id) calls in flight that have not appended their entry
PendingLogs(id) ==
    Cardinality({c \in Callers :
        /\ caller[c].op = "add_log"
        /\ caller[c].pc = "log_append"
        /\ caller[c].id = id})

\* the n-th call passes a message of its own; level is left at its default
Call_add_bot_log(c, id) ==
    /\ caller[c].pc = "idle"
    /\ appended[id] + PendingLogs(id) < MaxAppended
    /\ caller' = [caller EXCEPT ![c] =
                    [IdleCaller EXCEPT !.op = "add_log", !.id = id,
                                       !.pc = "log_append"]]
    /\ UNCHANGED <<registry, stop_event, worker, nAlloc, observed, leaked,
                   rest>>

\* lines 218-222
log_entry(msg, level) ==
    [timestamp |-> "now", level |-> level, message |-> msg]

\* lines 225-226: logs.append(log_entry) on the list of the record
log_append(c) ==
    LET d == caller[c]
        n == appended[d.id] + 1 IN
    /\ d.pc = "log_append"
    /\ bot_statuses' =
         [Touch(bot_statuses, d.id) EXCEPT ![d.id] =
            [@ EXCEPT !.logs = Append(@, log_entry(n, "info"))]]
    /\ appended' = [appended EXCEPT ![d.id] = n]
    /\ caller' = [caller EXCEPT ![c] = [d EXCEPT !.pc = "log_evict"]]
    /\ UNCHANGED <<bots, botsOrder, bot_threads, stop_events, stop_event,
                   worker, nAlloc, observed, leaked, view, turn, engine>>

\* variant: the entry is dropped as soon as the log holds LogCap entries
Evict_AtCap(logs) == IF Len(logs) >= LogCap THEN Tail(logs) ELSE logs

\* lines 227-228: if len(logs) > 50: logs.pop(0)
Evict(logs) == IF Len(logs) > LogCap THEN Tail(logs) ELSE logs

\* lines 227-228, then add_bot_log returns None: nothing of the call is left
log_evict(c) ==
    LET d == caller[c] IN
    /\ d.pc = "log_evict"
    /\ bot_statuses' =
         [Touch(bot_statuses, d.id) EXCEPT ![d.id] =
            [@ EXCEPT !.logs = Evict(@)]]
    /\ caller' = [caller EXCEPT ![c] = IdleCaller]
    /\ UNCHANGED <<bots, botsOrder, bot_threads, stop_events, stop_event,
                   worker, nAlloc, observed, leaked, rest>>

\* ------------------------------------------- increment_processed_count
Call_increment_processed_count(c, id) ==
    /\ caller[c].pc = "idle"
    /\ Touch(bot_statuses, id)[id].processed_count < MaxProcessed
    /\ caller' = [caller EXCEPT ![c] =
                    [IdleCaller EXCEPT !.op = "increment", !.id = id,
                                       !.pc = "inc_read"]]
    /\ UNCHANGED <<registry, stop_event, worker, nAlloc, observed, leaked,
                   rest>>

\* line 251: the read of processed_count += 1 (a missing key is created)
inc_read(c) ==
    LET d == caller[c]
        st == Touch(bot_statuses, d.id) IN
    /\ d.pc = "inc_read"
    /\ bot_statuses' = st
    /\ caller' = [caller EXCEPT ![c] =
                    [d EXCEPT !.pc = "inc_store",
                              !.tmp = st[d.id].processed_count]]
    /\ UNCHANGED <<bots, botsOrder, bot_threads, stop_events, stop_event,
                   worker, nAlloc, observed, leaked, rest>>

\* line 251: the store of processed_count += 1
inc_store(c) ==
    LET d == caller[c] IN
    /\ d.pc = "inc_store"
    /\ bot_statuses' =
         [Touch(bot_statuses, d.id) EXCEPT ![d.id] =
            [@ EXCEPT !.processed_count = d.tmp + 1]]
    /\ caller' = [caller EXCEPT ![c] = IdleCaller]
    /\ UNCHANGED <<bots, botsOrder, bot_threads, stop_events, stop_event,
                   worker, nAlloc, observed, leaked, rest>>

\* ------------------------------------- get_bot_status, get_all_statuses
\* dict(status): a new dict with the values of status.  The value under
\* "logs" is the list object of the record, which the copy shares with it;
\* the record of id keeps the one list that the default factory made.
dict(st, id) == [st[id] EXCEPT !.logs = [list_of |-> id]]

\* what the holder of the copy cp reads in it: its "logs" is the list as
\* it is now
Seen(cp) == [cp EXCEPT !.logs = bot_statuses[cp.logs.list_of].logs]

Call_get_bot_status(c, id) ==
    /\ caller[c].pc = "idle"
    /\ caller' = [caller EXCEPT ![c] =
                    [IdleCaller EXCEPT !.op = "get_status", !.id = id,
                                       !.pc = "get_copy"]]
    /\ view' = [view EXCEPT ![c] = NoView]
    /\ UNCHANGED <<registry, stop_event, worker, nAlloc, observed, leaked,
                   appended, turn, engine>>

\* line 188: dict(self.bot_statuses.get(bot_name, {})); .get creates no key
get_copy(c) ==
    LET d == caller[c]
        found == IF d.id \in DOMAIN bot_statuses THEN {d.id} ELSE {} IN
    /\ d.pc = "get_copy"
    /\ view' = [view EXCEPT ![c] =
                  [op |-> "get_status",
                   copies |-> [i \in found |-> dict(bot_statuses, i)],
                   instants |-> [i \in found |-> bot_statuses[i]]]]
    /\ caller' = [caller EXCEPT ![c] = IdleCaller]
    /\ UNCHANGED <<registry, stop_event, worker, nAlloc, observed, leaked,
                   appended, turn, engine>>

\* line 192: the iterator over self.bot_statuses.items() is created
Call_get_all_statuses(c) ==
    /\ caller[c].pc = "idle"
    /\ caller' = [caller EXCEPT ![c] =
                    [IdleCaller EXCEPT
                        !.op = "get_all", !.pc = "all_copy",
                        !.size = Cardinality(DOMAIN bot_statuses)]]
    /\ view' = [view EXCEPT ![c] = NoView]
    /\ UNCHANGED <<registry, stop_event, worker, nAlloc, observed, leaked,
                   appended, turn, engine>>

\* line 192: one step of the comprehension.  The iterator raises
\* RuntimeError if the dict has changed size since it was created; else it
\* yields the next item, which is copied, or it ends and the new dict is
\* returned.  The order of the keys is not recorded: any key not yet
\* visited may come next.
all_copy(c) ==
    LET d == caller[c]
        left == DOMAIN bot_statuses \ DOMAIN d.copies IN
    /\ d.pc = "all_copy"
    /\ IF Cardinality(DOMAIN bot_statuses) # d.size
       THEN /\ caller' = [caller EXCEPT ![c] = IdleCaller]
            /\ UNCHANGED view
       ELSE IF left = {}
       THEN /\ caller' = [caller EXCEPT ![c] = IdleCaller]
            /\ view' = [view EXCEPT ![c] =
                          [op |-> "get_all", copies |-> d.copies,
                           instants |-> d.instants]]
       ELSE /\ \E i \in left :
                 caller' = [caller EXCEPT ![c] =
                    [d EXCEPT
                       !.copies = @ @@ (i :> dict(bot_statuses, i)),
                       !.instants = @ @@ (i :> bot_statuses[i])]]
            /\ UNCHANGED view
    /\ UNCHANGED <<registry, stop_event, worker, nAlloc, observed, leaked,
                   appended, turn, engine>>

\* ------------------------------------------------------ WhatsAppBot.run
\* variant: the records are one dict object, a write shows in every record
update_status_Shared(st, id, status) ==
    [i \in DOMAIN Touch(st, id) |-> [Touch(st, id)[i] EXCEPT !.status = status]]

\* _update_status: self.bot_statuses[self.bot_name]["status"] = status
update_status(st, id, status) ==
    [Touch(st, id) EXCEPT ![id] = [@ EXCEPT !.status = status]]

update_status_unread(st, id, status, n) ==
    [Touch(st, id) EXCEPT ![id] =
        [@ EXCEPT !.status = status, !.unread_count = n]]

\* variant: the while loop of _process_loop never reads the Event
LoopExits_NoPoll(w) == FALSE

\* the polls of self.stop_event.is_set()
LoopExits(w) == stop_event[w]      \* line 201, while not ...is_set()
IdleBreaks(w) == stop_event[w]     \* line 217
ChatBreaks(w) == stop_event[w]     \* line 227
MsgBreaks(w) == stop_event[w]      \* line 328

WorkerFrame == UNCHANGED <<bots, botsOrder, bot_threads, stop_events,
                           stop_event, nAlloc, caller, leaked, rest>>

\* lines 62-64
run_begin(w) ==
    /\ worker[w].pc = "run"
    /\ bot_statuses' = update_status(bot_statuses, worker[w].name,
                                     "Initializing")
    /\ worker' = [worker EXCEPT ![w].pc = "init"]
    /\ UNCHANGED observed
    /\ WorkerFrame

\* lines 67-69 and 86-131: the driver is created, or run returns
initialize_driver(w) ==
    /\ worker[w].pc = "init"
    /\ \/ worker' = [worker EXCEPT ![w].driver = TRUE, ![w].pc = "open"]
       \/ worker' = [worker EXCEPT ![w].pc = "cleanup"]
    /\ UNCHANGED <<bot_statuses, observed>>
    /\ WorkerFrame

\* lines 72, 136-139
open_whatsapp_web(w) ==
    /\ worker[w].pc = "open"
    /\ bot_statuses' = update_status(bot_statuses, worker[w].name,
                                     "Opening WhatsApp Web")
    /\ worker' = [worker EXCEPT ![w].pc = "wait_page"]
    /\ UNCHANGED observed
    /\ WorkerFrame

\* lines 142-159 and 163-175: the page loads, loading fails and run
\* returns, or a QR code is shown
wait_page(w) ==
    /\ worker[w].pc = "wait_page"
    /\ \/ /\ worker' = [worker EXCEPT ![w].pc = "loop"]
          /\ UNCHANGED bot_statuses
       \/ /\ worker' = [worker EXCEPT ![w].pc = "cleanup"]
          /\ UNCHANGED bot_statuses
       \/ /\ worker' = [worker EXCEPT ![w].pc = "qr"]
          /\ bot_statuses' = update_status(bot_statuses, worker[w].name,
                                           "Login Required - Scan QR Code")
    /\ UNCHANGED observed
    /\ WorkerFrame

\* lines 177-195: the code is scanned, or the wait times out
handle_qr_code(w) ==
    /\ worker[w].pc = "qr"
    /\ \/ worker' = [worker EXCEPT ![w].pc = "loop"]
       \/ worker' = [worker EXCEPT ![w].pc = "cleanup"]
    /\ UNCHANGED <<bot_statuses, observed>>
    /\ WorkerFrame

\* line 201: the condition of the while loop
process_loop(w) ==
    /\ worker[w].pc = "loop"
    /\ IF LoopExits(w)
       THEN /\ worker' = [worker EXCEPT ![w].pc = "cleanup"]
            /\ observed' = observed \cup {w}
       ELSE /\ worker' = [worker EXCEPT ![w].pc = "filter"]
            /\ UNCHANGED observed
    /\ UNCHANGED bot_statuses
    /\ WorkerFrame

\* lines 204-224: the filter fails (sleep, continue), there is no unread
\* chat, or there are n unread chats
get_unread_chats(w) ==
    /\ worker[w].pc = "filter"
    /\ \/ /\ worker' = [worker EXCEPT ![w].pc = "loop"]
          /\ UNCHANGED bot_statuses
       \/ /\ worker' = [worker EXCEPT ![w].pc = "idle", ![w].k = 0]
          /\ bot_statuses' =
               update_status_unread(bot_statuses, worker[w].name,
                                    "Idle - No unread messages", 0)
       \/ \E n \in 1..MaxChats :
          /\ worker' = [worker EXCEPT ![w].pc = "chats", ![w].chats = n]
          /\ bot_statuses' =
               update_status_unread(bot_statuses, worker[w].name,
                                    "Processing messages", n)
    /\ UNCHANGED observed
    /\ WorkerFrame

\* lines 216-220: one round of the idle wait
idle_wait(w) ==
    /\ worker[w].pc = "idle"
    /\ IF IdleBreaks(w)
       THEN /\ worker' = [worker EXCEPT ![w].pc = "loop", ![w].k = 0]
            /\ observed' = observed \cup {w}
       ELSE /\ worker' = [worker EXCEPT
                            ![w].pc = IF worker[w].k + 1 >= IdleInterval
                                      THEN "loop" ELSE "idle",
                            ![w].k = IF worker[w].k + 1 >= IdleInterval
                                     THEN 0 ELSE @ + 1]
            /\ UNCHANGED observed
    /\ UNCHANGED bot_statuses
    /\ WorkerFrame

\* lines 226-238 and 280-324: the loop over the unread chats; a chat is
\* skipped (unsaved contact, no application number, no unread message, an
\* error) or its m unread messages are taken
chat_loop(w) ==
    /\ worker[w].pc = "chats"
    /\ IF worker[w].chats = 0
       THEN /\ worker' = [worker EXCEPT ![w].pc = "loop"]
            /\ UNCHANGED observed
       ELSE IF ChatBreaks(w)
       THEN /\ worker' = [worker EXCEPT ![w].pc = "loop", ![w].chats = 0]
            /\ observed' = observed \cup {w}
       ELSE /\ \/ worker' = [worker EXCEPT ![w].chats = @ - 1]
               \/ \E m \in 1..MaxMsgs :
                    worker' = [worker EXCEPT ![w].pc = "msgs", ![w].msgs = m]
            /\ UNCHANGED observed
    /\ UNCHANGED bot_statuses
    /\ WorkerFrame

\* lines 327-336 and 411-447: the loop over the messages of a chat; a
\* message gets no response, or send_message is called with the response
\* and returns True or False (line 431 drops the value, kept here in sent),
\* the turn is logged and the counter is read for the increment of line 447
msg_loop(w) ==
    /\ worker[w].pc = "msgs"
    /\ IF worker[w].msgs = 0
       THEN /\ worker' = [worker EXCEPT ![w].pc = "chats", ![w].chats = @ - 1]
            /\ UNCHANGED observed
       ELSE IF MsgBreaks(w)
       THEN /\ worker' = [worker EXCEPT ![w].pc = "chats", ![w].msgs = 0,
                                        ![w].chats = @ - 1]
            /\ observed' = observed \cup {w}
       ELSE /\ \/ worker' = [worker EXCEPT ![w].msgs = @ - 1]
               \/ /\ Touch(bot_statuses, worker[w].name)[worker[w].name]
                        .processed_count < MaxProcessed
                  /\ \E ok \in BOOLEAN :
                       worker' = [worker EXCEPT
                          ![w].pc = "count",
                          ![w].sent = ok,
                          ![w].tmp = Touch(bot_statuses, worker[w].name)
                                        [worker[w].name].processed_count]
            /\ UNCHANGED observed
    /\ UNCHANGED bot_statuses
    /\ WorkerFrame

\* line 447: the store of processed_count += 1
count_store(w) ==
    /\ worker[w].pc = "count"
    /\ bot_statuses' =
         [Touch(bot_statuses, worker[w].name) EXCEPT ![worker[w].name] =
            [@ EXCEPT !.processed_count = worker[w].tmp + 1]]
    /\ worker' = [worker EXCEPT ![w].pc = "msgs", ![w].msgs = @ - 1,
                                ![w].tmp = 0, ![w].sent = FALSE]
    /\ UNCHANGED observed
    /\ WorkerFrame

\* an exception that no inner handler catches: raised before the driver
\* is created (lines 63-64) or in _process_loop outside its try block or
\* inside its handler (lines 199-201, 240-242)
fault(w) ==
    /\ worker[w].pc \in {"run", "loop"}
    /\ worker' = [worker EXCEPT ![w].pc = "error", ![w].err = TRUE]
    /\ UNCHANGED <<bot_statuses, observed>>
    /\ WorkerFrame

\* lines 79-81
on_error(w) ==
    /\ worker[w].pc = "error"
    /\ bot_statuses' = update_status(bot_statuses, worker[w].name, "Error")
    /\ worker' = [worker EXCEPT ![w].pc = "cleanup"]
    /\ UNCHANGED observed
    /\ WorkerFrame

\* the status that _cleanup leaves (line 539)
CleanupStatus(w) == "Stopped"

\* lines 83-84, 530-539: driver.quit() leaves self.driver set
cleanup(w) ==
    /\ worker[w].pc = "cleanup"
    /\ bot_statuses' = update_status(bot_statuses, worker[w].name,
                                     CleanupStatus(w))
    /\ worker' = [worker EXCEPT ![w].pc = "stamp"]
    /\ UNCHANGED observed
    /\ WorkerFrame

\* line 540, then run returns and the thread ends
cleanup_stamp(w) ==
    /\ worker[w].pc = "stamp"
    /\ bot_statuses' =
         [Touch(bot_statuses, worker[w].name) EXCEPT ![worker[w].name] =
            [@ EXCEPT !.stop_time = "now"]]
    /\ worker' = [worker EXCEPT ![w].pc = "done"]
    /\ observed' = observed \ {w}
    /\ leaked' = leaked \ {w}
    /\ UNCHANGED <<bots, botsOrder, bot_threads, stop_events, stop_event,
                   nAlloc, caller, rest>>

\* ------------------------------------------------------------------ Next
WorkerStep(w) ==
    \/ run_begin(w)
    \/ initialize_driver(w)
    \/ open_whatsapp_web(w)
    \/ wait_page(w)
    \/ handle_qr_code(w)
    \/ process_loop(w)
    \/ get_unread_chats(w)
    \/ idle_wait(w)
    \/ chat_loop(w)
    \/ msg_loop(w)
    \/ count_store(w)
    \/ on_error(w)
    \/ cleanup(w)
    \/ cleanup_stamp(w)

StartSteps(c) ==
    \/ start_check(c)
    \/ start_event(c)
    \/ start_status(c)
    \/ start_construct(c)
    \/ start_thread(c)
    \/ start_register(c)

StopSteps(c) ==
    \/ stop_check(c)
    \/ stop_signal(c)
    \/ stop_thread(c)
    \/ stop_join(c)
    \/ stop_status(c)
    \/ stop_del_bot(c)
    \/ stop_del_thread(c)

\* The manager driven by one thread, which calls any operation on identity
\* "A", one call after the other; the workers run concurrently with it.
Next ==
    \/ Call_start_bot("main", "A")
    \/ Call_stop_bot("main", "A")
    \/ Call_restart_bot("main", "A")
    \/ Call_stop_all_bots("main")
    \/ StartSteps("main")
    \/ StopSteps("main")
    \/ all_next("main")
    \/ restart_check("main")
    \/ \E w \in Workers : WorkerStep(w)
    \/ \E w \in Workers : fault(w)

Spec == Init /\ [][Next]_vars

\* Two identities started and shut down by one thread (main.py lines 64-86).
NextAll ==
    \/ \E id \in Ids : Call_start_bot("main", id)
    \/ Call_stop_all_bots("main")
    \/ StartSteps("main")
    \/ StopSteps("main")
    \/ all_next("main")
    \/ \E w \in Workers : WorkerStep(w)
    \/ \E w \in Workers : fault(w)

SpecAll == Init /\ [][NextAll]_vars

\* main.py: start_bot("A") runs on its own thread while the main thread
\* stops "A" (stop_all_bots calls stop_bot for it).
NextRace ==
    \/ Call_start_bot("starter", "A")
    \/ StartSteps("starter")
    \/ Call_stop_bot("main", "A")
    \/ StopSteps("main")
    \/ \E w \in Workers : WorkerStep(w)
    \/ \E w \in Workers : fault(w)

SpecRace == Init /\ [][NextRace]_vars

\* One identity started and stopped by one thread; every step of a started
\* worker is eventually taken (its external calls return).
NextCancel ==
    \/ Call_start_bot("main", "A")
    \/ StartSteps("main")
    \/ Call_stop_bot("main", "A")
    \/ StopSteps("main")
    \/ \E w \in Workers : WorkerStep(w)
    \/ \E w \in Workers : fault(w)

SpecCancel ==
    /\ Init
    /\ [][NextCancel]_vars
    /\ \A w \in Workers : WF_vars(WorkerStep(w))

\* Two threads append to the log of "A" while one of them also increments
\* counters and the other queries the statuses.
NextLog ==
    \/ \E c \in Callers : Call_add_bot_log(c, "A")
    \/ \E c \in Callers : log_append(c)
    \/ \E c \in Callers : log_evict(c)
    \/ \E id \in Ids : Call_increment_processed_count("main", id)
    \/ inc_read("main")
    \/ inc_store("main")
    \/ Call_get_bot_status("starter", "A")
    \/ get_copy("starter")
    \/ Call_get_all_statuses("starter")
    \/ all_copy("starter")

SpecLog == Init /\ [][NextLog]_vars

\* The workers of "A" count their answered messages while another thread
\* calls increment_processed_count("A").
NextCount ==
    \/ Call_start_bot("main", "A")
    \/ StartSteps("main")
    \/ Call_increment_processed_count("starter", "A")
    \/ inc_read("starter")
    \/ inc_store("starter")
    \/ \E w \in Workers : WorkerStep(w)
    \/ \E w \in Workers : fault(w)

SpecCount == Init /\ [][NextCount]_vars

\* a worker thread of id is alive
HasLiveWorker(id) == LiveWorkers(id) # {}

\* One thread starts "B"; while a worker of "B" is alive another thread
\* calls the operations on "A" (one log entry is appended); the workers of
\* both run, fault and exit.
NextIso ==
    \/ HasLiveWorker("B") /\ Call_start_bot("main", "A")
    \/ HasLiveWorker("B") /\ Call_stop_bot("main", "A")
    \/ HasLiveWorker("B") /\ Call_restart_bot("main", "A")
    \/ HasLiveWorker("B") /\ appended["A"] = 0 /\ Call_add_bot_log("main", "A")
    \/ HasLiveWorker("B") /\ Call_increment_processed_count("main", "A")
    \/ StartSteps("main")
    \/ StopSteps("main")
    \/ restart_check("main")
    \/ log_append("main")
    \/ log_evict("main")
    \/ inc_read("main")
    \/ inc_store("main")
    \/ Call_start_bot("starter", "B")
    \/ StartSteps("starter")
    \/ \E w \in Workers : WorkerStep(w)
    \/ \E w \in Workers : fault(w)

SpecIso == Init /\ [][NextIso]_vars

\* ================================================================== text
\* Python str and re, on strings: s[i] is SubSeq(s, i, i), "" is the empty
\* string, \o is +.
MaxTokens == 3        \* phrases of the vocabulary joined into one message
MaxApplied == 2       \* applications of extract_question_from_message in turn

At(s, i) == IF i >= 1 /\ i <= Len(s) THEN SubSeq(s, i, i) ELSE ""

From(s, i) == SubSeq(s, i, Len(s))

UpperCase == "ABCDEFGHIJKLMNOPQRSTUVWXYZ"
LowerCase == "abcdefghijklmnopqrstuvwxyz"
Digits == "0123456789"

CharsOf(s) == {SubSeq(s, i, i) : i \in 1..Len(s)}

UpperChars == CharsOf(UpperCase)
WordChars ==
    CharsOf(UpperCase) \cup CharsOf(LowerCase) \cup CharsOf(Digits) \cup {"_"}

\* re: \s and \w for the characters of the messages
IsSpace(ch) == ch \in {" ", "\t", "\n", "\r"}
IsWord(ch) == ch \in WordChars

lower_char(ch) ==
    IF ch \in UpperChars
    THEN At(LowerCase, CHOOSE i \in 1..Len(UpperCase) : At(UpperCase, i) = ch)
    ELSE ch

\* str.lower()
RECURSIVE lower(_)
lower(s) == IF s = "" THEN "" ELSE lower_char(At(s, 1)) \o lower(From(s, 2))

\* str.strip(): leading and trailing whitespace removed
RECURSIVE lstrip(_)
lstrip(s) == IF s # "" /\ IsSpace(At(s, 1)) THEN lstrip(From(s, 2)) ELSE s

RECURSIVE rstrip(_)
rstrip(s) ==
    IF s # "" /\ IsSpace(At(s, Len(s)))
    THEN rstrip(SubSeq(s, 1, Len(s) - 1))
    ELSE s

strip(s) == rstrip(lstrip(s))

\* kw in s
Contains(s, kw) ==
    \E i \in 1..(Len(s) - Len(kw) + 1) : SubSeq(s, i, i + Len(kw) - 1) = kw

\* any(kw in s for kw in kws)
AnyIn(kws, s) == \E j \in 1..Len(kws) : Contains(s, kws[j])

\* len(re.findall(r'\w+', s)): the maximal runs of word characters
WordRuns(s) ==
    Cardinality({i \in 1..Len(s) : IsWord(At(s, i)) /\ ~IsWord(At(s, i - 1))})

\* len(s.split()): the maximal runs of characters that are not whitespace
SplitCount(s) ==
    Cardinality({i \in 1..Len(s) :
        /\ ~IsSpace(At(s, i))
        /\ (i = 1 \/ IsSpace(At(s, i - 1)))})

\* re.sub(r'\s+', ' ', s): every run of whitespace becomes one blank
RECURSIVE collapse(_)
collapse(s) ==
    IF s = "" THEN ""
    ELSE IF IsSpace(At(s, 1))
    THEN " " \o collapse(lstrip(s))
    ELSE At(s, 1) \o collapse(From(s, 2))

\* ------------------------------------------------- MessageHelpers.keywords
\* _get_default_keywords, lines 43-105: the configuration in use when no
\* config/keywords.json is present
keywords ==
    [greetings |->
        <<"hi", "hello", "hey", "good morning", "good afternoon",
          "good evening", "good night", "greetings", "namaste",
          "hola", "bonjour", "salut">>,
     acknowledgments |->
        <<"thanks", "thank you", "thx", "ty", "thanku", "tnx",
          "noted", "noted with thanks",
          "okay", "ok", "okey", "okie", "okk",
          "k", "kk", "kay",
          "alright", "all right", "rite",
          "got it", "gotcha", "understood",
          "cool", "fine", "great", "awesome", "perfect", "sure",
          "confirmed", "confirm", "done", "completed",
          "yep", "yes", "yeah", "ya", "yah">>,
     paypal |->
        <<"paypal", "pay pal", "paypal payment", "pay through paypal",
          "paypal option", "paypal link", "undertaking letter",
          "paypal account">>,
     publications |->
        <<"publication", "article", "research paper", "journal",
          "publish", "manuscript", "paper submission",
          "research publication", "journal article", "publish paper",
          "research work", "e-journal">>,
     remittance |->
        <<"remittance", "payment proof", "receipt", "transaction",
          "payment receipt", "bank transfer", "payment confirmation",
          "proof of payment", "payment slip">>,
     greeting_prefixes |->
        <<"hi", "hello", "hey", "good morning", "good afternoon",
          "good evening", "dear", "respected", "sir", "madam">>,
     salutations |->
        <<"sir", "madam", "ma'am", "mr", "mrs", "ms", "dr", "prof">>]

\* ------------------------------------------------- classification rules
\* variant: only a message that is itself a greeting phrase is a greeting
is_pure_greeting_Exact(msg) ==
    LET message_lower == strip(lower(msg))
    IN  /\ \E j \in 1..Len(keywords.greetings) :
              message_lower = keywords.greetings[j]
        /\ ~Contains(msg, "?")

\* lines 157-178
is_pure_greeting(msg) ==
    LET message_lower == strip(lower(msg))
        words == WordRuns(message_lower)
    IN  /\ words <= 3
        /\ AnyIn(keywords.greetings, message_lower)
        /\ ~Contains(msg, "?")

\* lines 180-203
is_satisfied_response(msg) ==
    LET message_lower == strip(lower(msg))
    IN  IF SplitCount(msg) <= 3
        THEN AnyIn(keywords.acknowledgments, message_lower)
        ELSE FALSE

\* lines 205-217
is_paypal_query(msg) == AnyIn(keywords.paypal, lower(msg))

\* lines 219-231
is_publication_query(msg) == AnyIn(keywords.publications, lower(msg))

\* lines 233-245
is_remittance_query(msg) == AnyIn(keywords.remittance, lower(msg))

\* message_processor.py lines 193-202: the processor's own list
student_keywords ==
    <<"my fee", "my payment", "my invoice", "my balance", "my due",
      "my course", "my grade", "my marks", "my status", "my enrollment",
      "application number", "student id", "my account">>

_is_student_specific_query(msg) == AnyIn(student_keywords, lower(msg))

\* ---------------------------------------- extract_question_from_message
\* re.IGNORECASE: the literal kw (re.escape) matches s at position i
MatchAt(s, i, kw) ==
    /\ i + Len(kw) - 1 <= Len(s)
    /\ lower(SubSeq(s, i, i + Len(kw) - 1)) = lower(kw)

\* \s* from position i: the position after the run of whitespace
RECURSIVE SkipSpaces(_, _)
SkipSpaces(s, i) == IF IsSpace(At(s, i)) THEN SkipSpaces(s, i + 1) ELSE i

\* [,.]? from position i
SkipPunct(s, i) == IF At(s, i) \in {",", "."} THEN i + 1 ELSE i

\* \b between the characters i - 1 and i
Boundary(s, i) == IsWord(At(s, i - 1)) # IsWord(At(s, i))

FirstOf(S) == CHOOSE j \in S : \A k \in S : j <= k

\* lines 322-330: re.sub of ^(p1|p2|...)\s*[,.]?\s* by '', anchored at the
\* start, so at most one prefix is removed: the first alternative that
\* matches there
remove_greeting(msg) ==
    LET P == keywords.greeting_prefixes
        hits == {j \in 1..Len(P) : MatchAt(msg, 1, P[j])}
    IN  IF hits = {}
        THEN msg
        ELSE From(msg, SkipSpaces(msg, SkipPunct(msg,
                 SkipSpaces(msg, Len(P[FirstOf(hits)]) + 1))))

\* lines 333-339: re.sub of \b(s1|s2|...)\b[,.]?\s* by '', every match from
\* left to right; i is the position of the scan in the original string
RECURSIVE remove_salutations(_, _)
remove_salutations(s, i) ==
    IF i > Len(s)
    THEN ""
    ELSE LET S == keywords.salutations
             hits == {j \in 1..Len(S) :
                         /\ Boundary(s, i)
                         /\ MatchAt(s, i, S[j])
                         /\ Boundary(s, i + Len(S[j]))}
         IN  IF hits = {}
             THEN At(s, i) \o remove_salutations(s, i + 1)
             ELSE remove_salutations(s,
                      SkipSpaces(s, SkipPunct(s, i + Len(S[FirstOf(hits)]))))

\* lines 303-344
extract_question_from_message(msg) ==
    LET cleaned == strip(collapse(remove_salutations(remove_greeting(msg), 1)))
    IN  IF cleaned # "" THEN cleaned ELSE msg

\* ------------------------------------------------------- RAGEngine.query
RetrieveK == 4        \* rag_engine.py line 188: documents retrieved at most
MaxSources == 3       \* rag_engine.py line 228: source questions returned

\* Confidences are in thousandths: 1000 is 1.0, 650 is 0.65.


\* what the engine meets in one call: the vector store loaded or not, the
\* number of documents over the score threshold, an exception in a step,
\* the number of distinct source questions of the chain's documents
RagEnv ==
    [store : BOOLEAN, docs : 0..RetrieveK, fails : BOOLEAN,
     sources : 0..MaxSources]

\* the text the language model wrote
Generated == "(text written by the language model)"

SourceQuestions(n) == SubSeq(<<"faq 1", "faq 2", "faq 3">>, 1, n)

Smaller(a, b) == IF a <= b THEN a ELSE b

\* line 221 without the factor 0.9: for comparison
confidence_of_Unscaled(n) == Smaller((n * 1000) \div RetrieveK, 1000)

\* line 221: min(len(relevant_docs) / 4.0, 1.0) * 0.9, in thousandths
confidence_of(n) == (Smaller((n * 1000) \div RetrieveK, 1000) * 9) \div 10

\* lines 164-241: <<answer, confidence, source_questions>>; no exception
\* leaves query
query(question, salutation, e) ==
    IF ~e.store
    THEN <<"I'm having technical difficulties. Please try again.", 0, <<>>>>
    ELSE IF e.fails
    THEN <<salutation \o ", I encountered an error processing your question. "
             \o "Please try again or contact support.", 0, <<>>>>
    ELSE IF e.docs = 0
    THEN <<salutation \o ", I couldn't find specific information about your "
             \o "query. Could you rephrase or provide more details?", 0, <<>>>>
    ELSE <<Generated, confidence_of(e.docs), SourceQuestions(e.sources)>>

\* ------------------------------------ RAGEngine.query, chunk by chunk
\* The operator query above is the call as the processor makes it: no
\* interface, and only the counts of what was found.  RAGEngine_query is the
\* same method over the chunks of the store, with the interface argument.
Threshold == 650      \* rag_engine.py line 189: score_threshold 0.65

\* relevance scores of a chunk for the question: under and over the threshold
Scores == {700, 600}
\* the Interface column of the FAQ rows, and the argument of query ("" is None)
ChunkInterfaces == {"LMS", "cms"}
InterfaceArgs == {"", "lms", "CMS"}
FaqQuestions == <<"faq 1", "faq 2", "faq 3", "faq 4">>

\* load_faq_data lines 59-75: the metadata of a chunk, with its score for
\* the question asked
Chunk ==
    [score : Scores, interface : ChunkInterfaces,
     question : {""} \cup {FaqQuestions[i] : i \in 1..RetrieveK}]

\* The k = 4 nearest chunks of the store for a question, nearest first (the
\* search both retrievers run, lines 154-157 and 185-191).  The chunk at
\* place i comes from FAQ row i, or from the row of the first chunk (a long
\* row is cut into several chunks), or has no question in its metadata.
Nearest ==
    UNION {{f \in [1..n -> Chunk] :
               /\ \A i \in 1..n : f[i].question \in {"", FaqQuestions[i], FaqQuestions[1]}
               /\ \A i \in 1..(n - 1) : f[i].score >= f[i + 1].score} :
           n \in 0..RetrieveK}

\* what one call meets: the store loaded or not, an exception in a step,
\* the nearest chunks; and the interface the caller gives
Retrievals ==
    [store : BOOLEAN, fails : BOOLEAN, found : Nearest,
     interface : InterfaceArgs]

\* lines 185-194: the retriever with score_threshold
over_threshold(found) == SelectSeq(found, LAMBDA d : d.score >= Threshold)

\* lines 206-210
filter_by_interface(docs, interface) ==
    IF interface # ""
    THEN SelectSeq(docs, LAMBDA d : lower(d.interface) = lower(interface))
    ELSE docs

\* lines 154-157 and 213: the chain retrieves for itself, k = 4 by
\* similarity with no threshold, and stuffs those chunks in the prompt
source_documents(found) == found

\* lines 224-228: list(set(...))[:3]; a set is iterated in an order the
\* language leaves open, so any MaxSources distinct questions in any order
source_questions(docs) ==
    LET S == {docs[i].question : i \in 1..Len(docs)} \ {""}
        n == Smaller(Cardinality(S), MaxSources)
    IN  {q \in [1..n -> S] : \A i, j \in 1..n : q[i] = q[j] => i = j}

\* a return of query with what the call did: relevant is relevant_docs at
\* line 221, grounding the chunks in the prompt of the chain, synthesized
\* whether the chain ran
QueryReturn(answer, conf, sources, relevant, grounding, synthesized) ==
    [answer |-> answer, confidence |-> conf, sources |-> sources,
     relevant |-> relevant, grounding |-> grounding,
     synthesized |-> synthesized]

\* lines 164-241
RAGEngine_query(question, salutation, interface, r) ==
    IF ~r.store
    THEN {QueryReturn("I'm having technical difficulties. Please try again.",
                   0, <<>>, <<>>, <<>>, FALSE)}
    ELSE IF r.fails
    THEN {QueryReturn(salutation
                     \o ", I encountered an error processing your question. "
                     \o "Please try again or contact support.",
                   0, <<>>, <<>>, <<>>, FALSE)}
    ELSE IF over_threshold(r.found) = <<>>
    THEN {QueryReturn(salutation
                     \o ", I couldn't find specific information about your "
                     \o "query. Could you rephrase or provide more details?",
                   0, <<>>, <<>>, <<>>, FALSE)}
    ELSE LET relevant_docs ==
                 filter_by_interface(over_threshold(r.found), interface)
             source_docs == source_documents(r.found)
         IN  {QueryReturn(Generated, confidence_of(Len(relevant_docs)), q,
                       relevant_docs, source_docs, TRUE) :
                 q \in source_questions(source_docs)}

\* ---------------------------------------------------- MessageProcessor
\* An outcome of a handler: ret is the dict it returns, or Raised when an
\* exception leaves it; ran lists the methods of the processor that ran,
\* asked the questions given to the engine, raised the calls in which an
\* exception was raised, retrieved the tuples the engine returned.
Raised == [exception |-> "Exception"]

Outcome(r, methods, questions) ==
    [ret |-> r, ran |-> methods, asked |-> questions, raised |-> <<>>,
     retrieved |-> <<>>]

\* the exception that query caught, if any
QueryFault(e) == IF e.store /\ e.fails THEN <<"query">> ELSE <<>>

\* lines 90-107: random.choice of three phrasings
_handle_greeting(salutation) ==
    {Outcome([response |-> text, message_type |-> "greeting",
              confidence |-> 1000, sources |-> <<>>,
              category |-> "greeting"],
             <<"_handle_greeting">>, <<>>) :
        text \in {salutation \o ", hello! How can I assist you today?",
                  "Hi " \o salutation \o "! I'm here to help with your queries.",
                  "Greetings " \o salutation \o "! What can I do for you?"}}

\* lines 109-126
_handle_acknowledgment(salutation) ==
    {Outcome([response |-> text, message_type |-> "acknowledgment",
              confidence |-> 1000, sources |-> <<>>,
              category |-> "post_interaction"],
             <<"_handle_acknowledgment">>, <<>>) :
        text \in {salutation \o ", glad I could help! Do you have any other questions?",
                  "You're welcome " \o salutation
                      \o "! Feel free to ask if you need anything else.",
                  salutation \o ", happy to assist! Let me know if there's anything more."}}

\* lines 128-144
_handle_paypal_query(salutation) ==
    {Outcome([response |-> salutation
                  \o ", to proceed with PayPal payment, reply with:\n\n"
                  \o "1 - I already have the undertaking letter\n"
                  \o "2 - Send me the undertaking letter template\n\n"
                  \o "Please reply with 1 or 2.",
              message_type |-> "paypal_query", confidence |-> 1000,
              sources |-> <<>>, category |-> "payment",
              requires_followup |-> TRUE],
             <<"_handle_paypal_query">>, <<>>)}

\* the fixed text of lines 159-165 (its pictographs left out)
PublicationText(salutation) ==
    salutation
    \o ", for queries related to publications or research articles, "
    \o "please contact our E-Journal Executive:\n\n"
    \o "Email: sabitha.k@tauedu.org or ejournal.assist@tau.edu.gy\n"
    \o "WhatsApp:\n"
    \o "  Public Health, Management: +91 7397735325\n"
    \o "  Academic Research, Medicine: +91 9500108397"

\* lines 146-175
_handle_publication_query(salutation, msg) ==
    {LET rag == query(msg, salutation, e)
         faq_addition == IF rag[2] >= 650 THEN "\n\n" \o rag[1] ELSE ""
     IN  [Outcome([response |-> PublicationText(salutation) \o faq_addition,
                   message_type |-> "publication_query",
                   confidence |-> 1000, sources |-> rag[3],
                   category |-> "publication"],
                  <<"_handle_publication_query">>, <<msg>>)
            EXCEPT !.raised = QueryFault(e), !.retrieved = <<rag>>] :
        e \in RagEnv}

\* lines 177-191
_handle_remittance_query(salutation) ==
    {Outcome([response |-> salutation
                  \o ", thank you for sharing the remittance copy. "
                  \o "I will forward it to our Finance team for verification and mapping. "
                  \o "You can check the status in the CMS portal within 3-10 business days.",
              message_type |-> "remittance_confirmation",
              confidence |-> 1000, sources |-> <<>>,
              category |-> "finance"],
             <<"_handle_remittance_query">>, <<>>)}

\* lines 293-335 with the hint in place of the answer: for comparison
_handle_faq_query_HintReplaces(msg, salutation) ==
    {LET rag == query(msg, salutation, e)
         confidence == rag[2]
         message_type == IF confidence >= 750 THEN "faq_answer_high_confidence"
                         ELSE IF confidence >= 650 THEN "faq_answer"
                         ELSE "low_confidence_answer"
         answer == IF confidence >= 650
                   THEN rag[1]
                   ELSE "If this doesn't fully answer your question, "
                        \o "please provide more details or contact support."
     IN  [Outcome([response |-> answer, message_type |-> message_type,
                   confidence |-> confidence, sources |-> rag[3],
                   category |-> "general"],
                  <<"_handle_faq_query">>, <<msg>>)
            EXCEPT !.raised = QueryFault(e), !.retrieved = <<rag>>] :
        e \in RagEnv}

\* lines 293-335, called without chat_context
_handle_faq_query(msg, salutation) ==
    {LET rag == query(msg, salutation, e)
         confidence == rag[2]
         message_type == IF confidence >= 750 THEN "faq_answer_high_confidence"
                         ELSE IF confidence >= 650 THEN "faq_answer"
                         ELSE "low_confidence_answer"
         answer == IF confidence >= 650
                   THEN rag[1]
                   ELSE rag[1] \o "\n\nIf this doesn't fully answer your question, "
                               \o "please provide more details or contact support."
     IN  [Outcome([response |-> answer, message_type |-> message_type,
                   confidence |-> confidence, sources |-> rag[3],
                   category |-> "general"],
                  <<"_handle_faq_query">>, <<msg>>)
            EXCEPT !.raised = QueryFault(e), !.retrieved = <<rag>>] :
        e \in RagEnv}

\* StudentRepository.fetch_invoice_data and fetch_academic_data
\* (student_repository.py lines 86-197) return a dict of the rows of the
\* contact (TRUE), or None (FALSE) when there is no row or when the query
\* raised, which the method catches
fetch_invoice_data(contact) == contact.invoice = "rows"
fetch_academic_data(contact) == contact.academic = "rows"

\* the exception that a lookup caught, if any
LookupFault(met, method) == IF met = "raises" THEN <<method>> ELSE <<>>

\* the outcomes os of the rest of a handler, after the faults before them
After(faults, os) == {[o EXCEPT !.raised = faults \o o.raised] : o \in os}

\* lines 216-217
fees_keywords == <<"fee", "payment", "invoice", "due", "balance", "pay">>
academic_keywords ==
    <<"course", "grade", "mark", "enrollment", "subject", "program">>

\* lines 337-413: _generate_invoice_response and _generate_academic_response
\* return the text of the language model, or the call raises
generate(returned, methods) ==
    {Outcome([returned EXCEPT !.response = Generated], methods, <<>>),
     [Outcome(Raised, methods, <<>>) EXCEPT
         !.raised = <<methods[Len(methods)]>>]}

\* lines 204-291
_handle_student_query(msg, contact, salutation) ==
    LET question == extract_question_from_message(msg)
        is_fees == AnyIn(fees_keywords, lower(question))
        is_academic == AnyIn(academic_keywords, lower(question))
        me == <<"_handle_student_query">>
        invoice_data == fetch_invoice_data(contact)
        academic_data == fetch_academic_data(contact)
    IN  IF is_fees
        THEN After(LookupFault(contact.invoice, "fetch_invoice_data"),
               IF invoice_data
               THEN generate([response |-> "", message_type |-> "invoice_response",
                              confidence |-> 1000,
                              sources |-> <<"Student Invoice Database">>,
                              category |-> "fees"],
                             me \o <<"_generate_invoice_response">>)
               ELSE {LET rag == query(question, salutation, e)
                         answer ==
                             IF rag[2] < 650
                             THEN salutation
                                  \o ", I couldn't find invoice details for your account. "
                                  \o "Please provide your application number or contact finance support."
                             ELSE rag[1]
                     IN  [Outcome([response |-> answer,
                                   message_type |-> "fees_general",
                                   confidence |-> rag[2], sources |-> rag[3],
                                   category |-> "fees"],
                                  me, <<question>>)
                            EXCEPT !.raised = QueryFault(e), !.retrieved = <<rag>>] :
                        e \in RagEnv})
        ELSE IF is_academic
        THEN After(LookupFault(contact.academic, "fetch_academic_data"),
               IF academic_data
               THEN generate([response |-> "", message_type |-> "academic_response",
                              confidence |-> 1000,
                              sources |-> <<"Student Academic Database">>,
                              category |-> "academic"],
                             me \o <<"_generate_academic_response">>)
               ELSE {Outcome([response |-> salutation
                                  \o ", I couldn't find academic data for your account. "
                                  \o "Please provide your application number.",
                              message_type |-> "data_not_found",
                              confidence |-> 0, sources |-> <<>>,
                              category |-> "academic"],
                             me, <<>>)})
        ELSE {[o EXCEPT !.ran = me \o o.ran] :
                 o \in _handle_faq_query(question, salutation)}

\* lines 80-88: what process_text_message returns when an exception is caught
ErrorResult(salutation) ==
    [response |-> salutation \o ", I encountered an error. Please try again.",
     message_type |-> "error", confidence |-> 0, sources |-> <<>>,
     category |-> "error"]

\* variant: the publication rule is tried before the PayPal rule
process_text_message_PublicationFirst(msg, contact, salutation) ==
    LET message_clean == strip(msg)
        handled ==
            IF is_pure_greeting(message_clean)
            THEN _handle_greeting(salutation)
            ELSE IF is_satisfied_response(message_clean)
            THEN _handle_acknowledgment(salutation)
            ELSE IF is_publication_query(message_clean)
            THEN _handle_publication_query(salutation, message_clean)
            ELSE IF is_paypal_query(message_clean)
            THEN _handle_paypal_query(salutation)
            ELSE IF is_remittance_query(message_clean)
            THEN _handle_remittance_query(salutation)
            ELSE IF _is_student_specific_query(message_clean)
            THEN _handle_student_query(message_clean, contact, salutation)
            ELSE _handle_faq_query(message_clean, salutation)
    IN  {IF o.ret = Raised THEN [o EXCEPT !.ret = ErrorResult(salutation)] ELSE o :
            o \in handled}

\* lines 45-88: the outcomes of one call; an exception of a handler is
\* caught and the error result returned
process_text_message(msg, contact, salutation) ==
    LET message_clean == strip(msg)
        handled ==
            IF is_pure_greeting(message_clean)
            THEN _handle_greeting(salutation)
            ELSE IF is_satisfied_response(message_clean)
            THEN _handle_acknowledgment(salutation)
            ELSE IF is_paypal_query(message_clean)
            THEN _handle_paypal_query(salutation)
            ELSE IF is_publication_query(message_clean)
            THEN _handle_publication_query(salutation, message_clean)
            ELSE IF is_remittance_query(message_clean)
            THEN _handle_remittance_query(salutation)
            ELSE IF _is_student_specific_query(message_clean)
            THEN _handle_student_query(message_clean, contact, salutation)
            ELSE _handle_faq_query(message_clean, salutation)
    IN  {IF o.ret = Raised THEN [o EXCEPT !.ret = ErrorResult(salutation)] ELSE o :
            o \in handled}

\* ------------------------------------------------- one conversation turn
\* the phrases the messages are made of
Vocabulary ==
    {"hi", "Hello,", "thanks", "paypal", "e-journal", "receipt", "my fee",
     "my course", "my status", "sir", "history", "why?"}

RECURSIVE Phrases(_)
Phrases(n) ==
    IF n = 1
    THEN Vocabulary
    ELSE {m \o " " \o t : m \in Phrases(n - 1), t \in Vocabulary}

Messages == UNION {Phrases(n) : n \in 1..MaxTokens}

\* message_processor.py line 36: the default of the parameter salutation
DefaultSalutation == "Student"

\* a turn: any message, for a contact with or without invoice and course
\* rows
InitTurn ==
    /\ InitManager
    /\ message \in Messages
    /\ records \in [invoice : Lookups, academic : Lookups]
    /\ result = NoResult
    /\ ran = <<>>
    /\ asked = <<>>
    /\ raised = <<>>
    /\ retrieved = <<>>
    /\ extracted = <<>>
    /\ InitEngine

\* WhatsAppBot._process_message line 422: the call and its return
Call_process_text_message ==
    /\ result = NoResult
    /\ \E o \in process_text_message(message, records, DefaultSalutation) :
          /\ result' = o.ret
          /\ ran' = o.ran
          /\ asked' = o.asked
          /\ raised' = o.raised
          /\ retrieved' = o.retrieved
    /\ UNCHANGED <<manager, message, records, extracted, engine>>

\* extract_question_from_message applied to the message, then to its own
\* output
Call_extract_question_from_message ==
    /\ Len(extracted) < MaxApplied
    /\ extracted' =
          Append(extracted, extract_question_from_message(
              IF extracted = <<>> THEN message ELSE extracted[Len(extracted)]))
    /\ UNCHANGED <<manager, message, records, result, ran, asked, raised,
                   retrieved, engine>>

NextTurn == Call_process_text_message

SpecTurn == InitTurn /\ [][NextTurn]_vars

\* the function extract_question_from_message on its own: any message
InitExtract ==
    /\ InitManager
    /\ message \in Messages
    /\ records = NoRecords
    /\ result = NoResult
    /\ ran = <<>>
    /\ asked = <<>>
    /\ raised = <<>>
    /\ retrieved = <<>>
    /\ extracted = <<>>
    /\ InitEngine

NextExtract == Call_extract_question_from_message

SpecExtract == InitExtract /\ [][NextExtract]_vars

\* the method RAGEngine.query on its own: any store, any nearest chunks, any
\* interface
AskedQuestion == "what is the refund policy"

InitQuery ==
    /\ InitManager
    /\ message = ""
    /\ records = NoRecords
    /\ result = NoResult
    /\ ran = <<>>
    /\ asked = <<>>
    /\ raised = <<>>
    /\ retrieved = <<>>
    /\ extracted = <<>>
    /\ retrieval \in Retrievals
    /\ reply = NoReply
    /\ qa_chain = "None"
    /\ queries = <<>>

\* one call of query and its return; line 182 leaves the chain built for
\* the salutation of the call unless the exception rose before it
Call_query ==
    /\ reply = NoReply
    /\ \E o \in RAGEngine_query(AskedQuestion, DefaultSalutation,
                                 retrieval.interface, retrieval) :
          reply' = o
    /\ qa_chain' \in IF ~retrieval.store THEN {qa_chain}
                     ELSE IF retrieval.fails
                     THEN {qa_chain, DefaultSalutation}
                     ELSE {DefaultSalutation}
    /\ UNCHANGED <<manager, turn, retrieval, queries>>

NextQuery == Call_query

SpecQuery == InitQuery /\ [][NextQuery]_vars

\* --------------------------------- concurrent calls of RAGEngine.query
\* The worker threads of the bots each own a MessageProcessor, and every
\* MessageProcessor holds the one engine of get_rag_engine (message_processor
\* line 28, rag_engine lines 304-312).  A call of query is split where
\* another thread can run: after the assignment of self.qa_chain and after
\* the retriever call.
Askers == {"A", "B"}
Salutations == {"Mr. Rao", "Ms. Iyer"}
AskedQuestions == {"what is the refund policy", "how do I reset my password"}

IdleQuery == [pc |-> "idle"]

InitRag ==
    /\ InitManager
    /\ message = ""
    /\ records = NoRecords
    /\ result = NoResult
    /\ ran = <<>>
    /\ asked = <<>>
    /\ raised = <<>>
    /\ retrieved = <<>>
    /\ extracted = <<>>
    /\ retrieval = NoRetrieval
    /\ reply = NoReply
    /\ qa_chain = "None"
    /\ queries = [t \in Askers |-> IdleQuery]

RagFrame == UNCHANGED <<manager, turn, retrieval, reply>>

\* lines 164-179: a thread enters query with its question and the
\* salutation of its contact (whatsapp_automation lines 421-426); the
\* vector store is loaded
query_enter(t) ==
    /\ queries[t].pc \in {"idle", "returned"}
    /\ \E q \in AskedQuestions, sal \in Salutations :
          queries' = [queries EXCEPT ![t] =
                         [pc |-> "setup", question |-> q, salutation |-> sal]]
    /\ UNCHANGED qa_chain
    /\ RagFrame

\* line 182 and lines 125-162: self.qa_chain is assigned the chain whose
\* prompt names the salutation of this call
setup_qa_chain(t) ==
    /\ queries[t].pc = "setup"
    /\ qa_chain' = queries[t].salutation
    /\ queries' = [queries EXCEPT ![t].pc = "retrieve"]
    /\ RagFrame

\* lines 185-203: the retriever call; with no document the call returns
get_relevant_documents(t) ==
    /\ queries[t].pc = "retrieve"
    /\ \E found \in BOOLEAN :
          queries' = [queries EXCEPT ![t] =
                         IF found
                         THEN [@ EXCEPT !.pc = "chain"]
                         ELSE [pc |-> "returned", question |-> @.question,
                               salutation |-> @.salutation,
                               synthesized |-> FALSE]]
    /\ UNCHANGED qa_chain
    /\ RagFrame

\* lines 213-232: self.qa_chain is read and run on the question of this
\* call; the answer is written under the prompt of the chain that was read
run_qa_chain(t) ==
    /\ queries[t].pc = "chain"
    /\ queries' = [queries EXCEPT ![t] =
                      [pc |-> "returned", question |-> @.question,
                       salutation |-> @.salutation, synthesized |-> TRUE,
                       prompt |-> [salutation |-> qa_chain,
                                   question |-> @.question]]]
    /\ UNCHANGED qa_chain
    /\ RagFrame

NextRag ==
    \E t \in Askers :
        \/ query_enter(t)
        \/ setup_qa_chain(t)
        \/ get_relevant_documents(t)
        \/ run_qa_chain(t)

SpecRag == InitRag /\ [][NextRag]_vars

\* ================================================================ claims
\* what a read of bot_statuses[id] yields (the default record if absent)
RecordOf(id) == Touch(bot_statuses, id)[id]

StartPcs == {"start_check", "start_event", "start_status", "start_construct",
             "start_thread", "start_register"}

\* C1: no identity has two worker threads alive at the same time.
C1_AtMostOneLiveWorker ==
    \A id \in Ids : Cardinality(LiveWorkers(id)) <= 1

\* C2: start_bot(id) called while a worker of id is alive returns False and
\* changes nothing of the registry, the workers or the tokens.
C2_StartWhileAliveRejected ==
    [][\A c \in Callers :
         ( /\ caller[c].op = "start"
           /\ caller[c].pc = "start_check"
           /\ caller'[c] # caller[c]
           /\ LiveWorkers(caller[c].id) # {} )
         => ( /\ caller'[c].pc = "idle"
              /\ ~caller'[c].ret
              /\ UNCHANGED <<registry, stop_event, worker, nAlloc>> )]_vars

\* C3: when stop_bot(id) returns True, no worker of id is alive, the status
\* of id is Stopped with a stop time, the worker and thread handles of id
\* are released and the record of id is still there.
C3_StopTrueMeansStopped ==
    [][\A c \in Callers :
         ( /\ caller[c].op = "stop"
           /\ caller[c].pc # "idle"
           /\ caller'[c].pc = "idle"
           /\ caller'[c].ret )
         => LET id == caller[c].id IN
            /\ (LiveWorkers(id))' = {}
            /\ id \in DOMAIN bot_statuses'
            /\ bot_statuses'[id].status = "Stopped"
            /\ bot_statuses'[id].stop_time # "None"
            /\ bots'[id] = 0
            /\ bot_threads'[id] = 0]_vars

\* the worker, thread and token entries of every leaked live worker
LeakKept ==
    \A w \in leaked :
        /\ bots[worker[w].name] = w
        /\ bot_threads[worker[w].name] = w
        /\ stop_events[worker[w].name] = w

\* C4: a stop_bot that times out returns False and leaves the registry as it
\* is, and the entries of the leaked worker stay registered while it lives,
\* also across a later start_bot.
C4_TimeoutKeepsBookkeeping ==
    [][ /\ \A c \in Callers :
             ( /\ caller[c].op = "stop"
               /\ caller[c].pc = "stop_join"
               /\ Alive(caller[c].th)
               /\ caller'[c] # caller[c] )
             => ( /\ caller'[c].pc = "idle"
                  /\ ~caller'[c].ret
                  /\ UNCHANGED registry )
        /\ LeakKept' ]_vars

\* the step in which worker w begins to process a chat or a message
BeginsWork(w) ==
    \/ /\ worker[w].pc = "chats"
       /\ worker[w].chats > 0
       /\ \/ worker'[w].pc = "msgs"
          \/ worker'[w].pc = "chats" /\ worker'[w].chats = worker[w].chats - 1
    \/ /\ worker[w].pc = "msgs"
       /\ worker[w].msgs > 0
       /\ \/ worker'[w].pc = "count"
          \/ worker'[w].pc = "msgs" /\ worker'[w].msgs = worker[w].msgs - 1

\* C5: once its token is set a live worker eventually terminates, and a
\* worker that has read its token as set begins no further chat or message.
C5_CooperativeCancel ==
    /\ \A w \in Workers : (stop_event[w] /\ Alive(w)) ~> ~Alive(w)
    /\ [][\A w \in Workers : w \in observed => ~BeginsWork(w)]_vars

\* a worker that left its loop after reading its token as set
C5_Witness ==
    \E w \in Workers :
        /\ w \in observed
        /\ stop_event[w]
        /\ worker[w].pc = "stamp"

LifecycleStates == {"Stopped", "Starting", "Running", "Stopping", "Error"}

LifecycleEdges ==
    {<<"Stopped", "Starting">>, <<"Starting", "Running">>,
     <<"Running", "Stopping">>, <<"Stopping", "Stopped">>,
     <<"Starting", "Error">>, <<"Running", "Error">>,
     <<"Error", "Starting">>}

\* C6: the status of an identity is always one of the five lifecycle states
\* and changes only along an edge of the state machine.
C6_StateMachine ==
    [][\A id \in Ids :
         /\ (RecordOf(id))'.status \in LifecycleStates
         /\ (RecordOf(id))'.status # RecordOf(id).status
            => <<RecordOf(id).status, (RecordOf(id))'.status>>
                   \in LifecycleEdges]_vars

\* C7: after a worker ended through the fault handler of run, the status of
\* its identity is Error until a later start_bot or stop_bot writes it.
C7_FaultLeavesError ==
    \A w \in Workers :
        (worker[w].pc = "done" /\ worker[w].err)
        => RecordOf(worker[w].name).status = "Error"

\* C8: a start_bot(id) is accepted when the registered worker of id has ended
\* on its own, its token unset, and no worker of id is alive.
C8_StartAfterSelfExit ==
    [][\A c \in Callers :
         ( /\ caller[c].op = "start"
           /\ caller[c].pc = "start_check"
           /\ caller'[c] # caller[c]
           /\ bots[caller[c].id] # 0
           /\ worker[bots[caller[c].id]].pc = "done"
           /\ ~stop_event[bots[caller[c].id]]
           /\ LiveWorkers(caller[c].id) = {} )
         => caller'[c].pc = "start_event"]_vars

\* C9: stop_all_bots calls stop_bot for every identity registered at the
\* call, whatever the earlier ones returned, and returns True exactly when
\* every one of these calls returned True.
C9_StopAllNoEarlyReturn ==
    [][\A c \in Callers :
         ( /\ caller[c].op = "stop_all"
           /\ caller[c].pc = "all_next"
           /\ caller'[c].pc = "idle" )
         => LET a == caller[c].attempts IN
            /\ {a[i][1] : i \in 1..Len(a)} = caller[c].snap
            /\ Len(a) = Cardinality(caller[c].snap)
            /\ caller'[c].ret = (\A i \in 1..Len(a) : a[i][2])]_vars

\* stop_all_bots about to return after a failed stop_bot was followed by a
\* successful one
C9_Witness ==
    \E c \in Callers :
        /\ caller[c].op = "stop_all"
        /\ caller[c].pc = "all_next"
        /\ caller[c].todo = <<>>
        /\ Len(caller[c].attempts) = 2
        /\ ~caller[c].attempts[1][2]
        /\ caller[c].attempts[2][2]

\* the step of stop_bot that returns False
StopFails(c) ==
    \/ caller[c].pc = "stop_check" /\ bots[caller[c].id] = 0
    \/ caller[c].pc = "stop_join" /\ Alive(caller[c].th)

\* C10: in restart_bot a failed stop_bot ends the call with False before any
\* step of start_bot: no token or worker is created and no status written;
\* after a successful stop_bot the call goes on to start_bot and returns
\* what start_bot returns.
C10_RestartStopThenStart ==
    [][\A c \in Callers :
         (caller[c].op = "restart" /\ caller'[c] # caller[c])
         => /\ StopFails(c)
               => /\ caller'[c].pc = "idle"
                  /\ ~caller'[c].ret
                  /\ ~caller[c].tried_start
                  /\ caller[c].ev = 0
                  /\ UNCHANGED <<registry, stop_event, worker, nAlloc>>
            /\ caller[c].pc = "stop_del_thread"
               => caller'[c].pc = "start_check"
            /\ caller[c].pc = "start_register"
               => caller'[c].pc = "idle" /\ caller'[c].ret
            /\ (caller[c].pc \in StartPcs \ {"start_register"}
                /\ caller'[c].pc = "idle")
               => ~caller'[c].ret]_vars

\* restart_bot has returned False because its stop_bot timed out on the
\* registered worker, which is still alive and still registered
C10_Witness ==
    \E c \in Callers :
        /\ caller[c].op = "restart"
        /\ caller[c].pc = "idle"
        /\ ~caller[c].ret
        /\ bots[caller[c].id] \in leaked
        /\ bot_threads[caller[c].id] = bots[caller[c].id]
        /\ stop_events[caller[c].id] = bots[caller[c].id]

\* the log that holds the most recent min(n, LogCap) of n appended entries
Recent(n) ==
    LET k == IF n < LogCap THEN n ELSE LogCap IN
    [i \in 1..k |-> log_entry(n - k + i, "info")]

\* add_bot_log(id) calls that have appended and not yet checked the length
Evicting(id) ==
    {c \in Callers : /\ caller[c].op = "add_log"
                     /\ caller[c].pc = "log_evict"
                     /\ caller[c].id = id}

C12_SnapshotIsPointInTime ==
    \A c \in Callers :
        view[c].op # "none"
        => \A id \in DOMAIN view[c].copies :
             Seen(view[c].copies[id]) = view[c].instants[id]

\* C13: processed_count counts the answered messages: every increment, by
\* a worker or by increment_processed_count, adds one to the counter as it
\* is at the store (none is lost), and a worker counts a message only if
\* its response was sent.
C13_CounterCountsAnswered ==
    [][ /\ \A w \in Workers :
             (worker[w].pc = "count" /\ worker'[w].pc # "count")
             => /\ worker[w].sent
                /\ (RecordOf(worker[w].name))'.processed_count
                     = RecordOf(worker[w].name).processed_count + 1
        /\ \A c \in Callers :
             (caller[c].pc = "inc_store" /\ caller'[c].pc # "inc_store")
             => (RecordOf(caller[c].id))'.processed_count
                  = RecordOf(caller[c].id).processed_count + 1 ]_vars

\* the step is taken by an operation called on id or by a worker of id
StepOf(id) ==
    \/ \E c \in Callers :
          caller'[c] # caller[c] /\ id \in {caller[c].id, caller'[c].id}
    \/ \E w \in Workers :
          worker'[w] # worker[w] /\ id \in {worker[w].name, worker'[w].name}

\* the record, the worker and thread handles and the token of id, and the
\* state and token of every worker of id
Owned(id) ==
    <<IF id \in DOMAIN bot_statuses THEN <<bot_statuses[id]>> ELSE <<>>,
      bots[id], bot_threads[id], stop_events[id],
      [w \in Workers |-> IF worker[w].name = id
                         THEN <<worker[w], stop_event[w]>> ELSE <<>>]>>

\* C14: a step of an operation on one identity, or of a worker of it (its
\* fault and exit included), changes nothing that belongs to another
\* identity: record, handles, token and workers stay as they are.
C14_Isolation ==
    [][\A a, b \in Ids :
         (a # b /\ StepOf(a)) => (Owned(b))' = Owned(b)]_vars

\* a worker of "A" has ended through the fault handler while a worker of
\* "B" is in its loop, its token unset
C14_Witness ==
    \E wa, wb \in Workers :
        /\ worker[wa].name = "A" /\ worker[wa].pc = "done" /\ worker[wa].err
        /\ worker[wb].name = "B" /\ worker[wb].pc = "filter"
        /\ ~stop_event[wb]
        /\ bot_statuses["B"].status = "Processing messages"

\* the methods of ran that are handlers of a rule (the others generate text)
Handlers(methods) ==
    SelectSeq(methods, LAMBDA m : m \notin {"_generate_invoice_response",
                                            "_generate_academic_response"})

\* the rules in their order, each with its handler and the message types of
\* the results of that handler
RuleHandler ==
    <<"_handle_greeting", "_handle_acknowledgment", "_handle_paypal_query",
      "_handle_publication_query", "_handle_remittance_query",
      "_handle_student_query", "_handle_faq_query">>

RuleTypes ==
    <<{"greeting"}, {"acknowledgment"}, {"paypal_query"},
      {"publication_query"}, {"remittance_confirmation"},
      {"invoice_response", "fees_general", "academic_response",
       "data_not_found"},
      {"faq_answer_high_confidence", "faq_answer", "low_confidence_answer"}>>

\* the rules a message satisfies; the default rule is satisfied by all
Matching(msg) ==
    LET m == strip(msg)
    IN  {r \in 1..7 :
            \/ r = 1 /\ is_pure_greeting(m)
            \/ r = 2 /\ is_satisfied_response(m)
            \/ r = 3 /\ is_paypal_query(m)
            \/ r = 4 /\ is_publication_query(m)
            \/ r = 5 /\ is_remittance_query(m)
            \/ r = 6 /\ _is_student_specific_query(m)
            \/ r = 7}

FirstRule(msg) == FirstOf(Matching(msg))

Answered == result.message_type # "none"

\* the extracted question of a message matches a keyword of neither the
\* fees nor the academic list
NoSubIntent(msg) ==
    LET question == lower(extract_question_from_message(strip(msg)))
    IN  ~AnyIn(fees_keywords, question) /\ ~AnyIn(academic_keywords, question)

\* C15: the message is answered by the first rule it satisfies, in the
\* order greeting, acknowledgment, PayPal, publication, remittance,
\* student-specific, FAQ: no handler but that rule's has run and the
\* result returned is one of that rule.
C15_FirstRuleOnly ==
    Answered =>
        /\ Handlers(ran) = <<RuleHandler[FirstRule(message)]>>
        /\ result.message_type \in RuleTypes[FirstRule(message)]

\* the message contains a configured PayPal phrase and a configured
\* publication phrase, whatever the case of its letters
BothPhrases(msg) ==
    /\ AnyIn(keywords.paypal, lower(msg))
    /\ AnyIn(keywords.publications, lower(msg))

\* C16 as stated: every message with a PayPal phrase and a publication
\* phrase gets the result of the PayPal handler, never that of the
\* publication handler.
C16_PayPalOverPublication ==
    (Answered /\ BothPhrases(message)) =>
        /\ result.message_type = "paypal_query"
        /\ ran = <<"_handle_paypal_query">>

\* C16 amended: every message with a PayPal phrase and a publication phrase
\* that neither the greeting rule nor the acknowledgment rule takes gets the
\* result of the PayPal handler, and no message with both phrases gets the
\* result of the publication handler.
C16_PayPalOverPublicationUnlessShort ==
    (Answered /\ BothPhrases(message)) =>
        /\ "_handle_publication_query" \notin {ran[i] : i \in 1..Len(ran)}
        /\ result.message_type # "publication_query"
        /\ (~is_pure_greeting(strip(message))
            /\ ~is_satisfied_response(strip(message)))
           => /\ result.message_type = "paypal_query"
              /\ result.category = "payment"
              /\ ran = <<"_handle_paypal_query">>

\* a message with both phrases, not a short one, answered by the PayPal
\* handler
C16_Witness ==
    /\ message = "paypal e-journal"
    /\ result.message_type = "paypal_query"
    /\ ran = <<"_handle_paypal_query">>

\* at most 3 word tokens, a configured greeting phrase in it, no '?'
ShortGreeting(msg) ==
    /\ WordRuns(msg) <= 3
    /\ AnyIn(keywords.greetings, lower(msg))
    /\ ~Contains(msg, "?")

\* C17: a message of at most 3 word tokens that contains a configured
\* greeting phrase and no '?' gets a result of category greeting with
\* confidence 1.0 and a response text that is not empty.
C17_ShortGreetingIsGreeting ==
    (Answered /\ ShortGreeting(message)) =>
        /\ result.category = "greeting"
        /\ result.confidence = 1000
        /\ result.response # ""

\* the message "hi" has been answered as a greeting
C17_Witness ==
    /\ message = "hi"
    /\ Answered
    /\ result.category = "greeting"
    /\ result.confidence = 1000
    /\ ran = <<"_handle_greeting">>

\* at most 3 words, a configured acknowledgment phrase in it, and not a
\* pure greeting
ShortAcknowledgment(msg) ==
    /\ SplitCount(msg) <= 3
    /\ AnyIn(keywords.acknowledgments, lower(msg))
    /\ ~ShortGreeting(msg)

\* C18: a message that the acknowledgment rule takes (at most 3 words, an
\* acknowledgment phrase in it, not a pure greeting) gets a result of
\* category acknowledgment with confidence 1.0.
C18_AcknowledgmentCategory ==
    (Answered /\ ShortAcknowledgment(message)) =>
        /\ result.category = "acknowledgment"
        /\ result.confidence = 1000

\* C19: extract_question_from_message applied to its own output returns
\* that output.
C19_ExtractIdempotent ==
    Len(extracted) >= 2 => extracted[2] = extracted[1]

\* the question that the student-specific handler extracts from a message
QuestionOf(msg) == extract_question_from_message(strip(msg))

\* C20: a message that the student-specific rule takes and whose extracted
\* question has a fees keyword, for a contact with an invoice record, gets
\* category fees, the one source "Student Invoice Database" and confidence
\* 1.0, whether or not the question has an academic keyword too; with
\* neither keyword the extracted question goes to the FAQ handler.
C20_FeesFromInvoiceRecord ==
    (Answered /\ FirstRule(message) = 6) =>
        /\ (AnyIn(fees_keywords, lower(QuestionOf(message)))
            /\ records.invoice = "rows")
           => /\ result.category = "fees"
              /\ result.sources = <<"Student Invoice Database">>
              /\ result.confidence = 1000
        /\ NoSubIntent(message)
           => /\ Handlers(ran) = <<RuleHandler[6], RuleHandler[7]>>
              /\ asked = <<QuestionOf(message)>>

Elements(seq) == {seq[i] : i \in 1..Len(seq)}

\* C21: when the generation call for an invoice or an academic record has
\* raised, the turn returns a text that is not empty under the category of
\* the record, fees or academic, and not the generic error result.
C21_GenerationFallback ==
    Answered =>
        /\ "_generate_invoice_response" \in Elements(raised)
           => result.category = "fees" /\ result.response # ""
        /\ "_generate_academic_response" \in Elements(raised)
           => result.category = "academic" /\ result.response # ""
        /\ Elements(raised) \cap {"_generate_invoice_response",
                                  "_generate_academic_response"} # {}
           => result # ErrorResult(DefaultSalutation)

\* text begins with the text head
StartsWith(text, head) ==
    Len(head) <= Len(text) /\ SubSeq(text, 1, Len(head)) = head

\* the fixed text of a categorical intent is in the response
HasFixedText(type, text) ==
    \/ /\ type = "paypal_query"
       /\ Contains(text, "to proceed with PayPal payment, reply with:")
    \/ /\ type = "remittance_confirmation"
       /\ Contains(text, "thank you for sharing the remittance copy.")
    \/ /\ type = "publication_query"
       /\ StartsWith(text, PublicationText(DefaultSalutation))

\* C22: a result of the PayPal, publication or remittance intent has
\* confidence 1.0 and no source, its response holds the fixed text of the
\* intent, and for publication the retrieved answer follows the fixed text
\* exactly when the retrieval confidence is at least 0.65.
C22_CategoricalTemplates ==
    (Answered /\ result.message_type \in
        {"paypal_query", "publication_query", "remittance_confirmation"}) =>
        /\ result.confidence = 1000
        /\ result.sources = <<>>
        /\ HasFixedText(result.message_type, result.response)
        /\ result.message_type = "publication_query"
           => result.response =
                 PublicationText(DefaultSalutation)
                 \o (IF retrieved[1][2] >= 650
                     THEN "\n\n" \o retrieved[1][1]
                     ELSE "")
\* C23: a turn in which a step (data access, retrieval or generation) raised
\* ends with a result of confidence 0.0, category error and non-empty text;
\* the exception never leaves process_text_message.
C23_FaultGivesErrorResult ==
    (Answered /\ raised # <<>>) =>
        /\ result # Raised
        /\ result.confidence = 0
        /\ result.category = "error"
        /\ result.response # ""
\* a call of query has returned
Replied == reply # NoReply

\* the call retrieved: the store was loaded and no step raised
Retrieved == Replied /\ retrieval.store /\ ~retrieval.fails

\* the places of the nearest chunks that clear the threshold, and those that
\* also carry the interface the caller gave
Clearing ==
    {i \in 1..Len(retrieval.found) : retrieval.found[i].score >= 650}

Surviving ==
    {i \in Clearing :
        \/ retrieval.interface = ""
        \/ lower(retrieval.found[i].interface) = lower(retrieval.interface)}

C25_NoSurvivorNoSynthesis ==
    (Retrieved /\ Surviving = {}) =>
        /\ reply.answer =
              DefaultSalutation
              \o ", I couldn't find specific information about your query. "
              \o "Could you rephrase or provide more details?"
        /\ reply.confidence = 0
        /\ reply.sources = <<>>
        /\ ~reply.synthesized
\* C27: the chunks in the prompt of the chain, and the chunks the returned
\* source questions come from, are exactly the chunks that cleared the
\* threshold and the interface filter; at most 3 distinct sources are
\* returned.
C27_GroundedOnSurvivors ==
    (Retrieved /\ reply.synthesized) =>
        /\ Len(reply.grounding) = Cardinality(Surviving)
        /\ \A j \in 1..Len(reply.grounding) :
              /\ reply.grounding[j].score >= 650
              /\ \/ retrieval.interface = ""
                 \/ lower(reply.grounding[j].interface)
                       = lower(retrieval.interface)
        /\ \A k \in 1..Len(reply.sources) :
              \E i \in Surviving :
                  retrieval.found[i].question = reply.sources[k]
        /\ Len(reply.sources) <= 3
        /\ \A k, l \in 1..Len(reply.sources) :
              reply.sources[k] = reply.sources[l] => k = l
\* the turn ended in the general FAQ handler
FaqTurn ==
    /\ Answered
    /\ ran # <<>>
    /\ ran[Len(ran)] = "_handle_faq_query"

Hint ==
    "\n\nIf this doesn't fully answer your question, "
    \o "please provide more details or contact support."

CouldNotFind ==
    DefaultSalutation
    \o ", I couldn't find specific information about your query. "
    \o "Could you rephrase or provide more details?"

\* C26: a general FAQ turn has type faq_answer_high_confidence from 0.75,
\* faq_answer from 0.65 to under 0.75 and low_confidence_answer under 0.65;
\* the hint is appended in the last case only, after the unchanged answer of
\* the retrieval; a retrieval that found no chunk over the threshold gives
\* confidence 0.0, low_confidence_answer and the hint.
C26_FaqLabelAndHint ==
    FaqTurn =>
        /\ result.confidence = retrieved[1][2]
        /\ result.confidence >= 750
              => /\ result.message_type = "faq_answer_high_confidence"
                 /\ result.response = retrieved[1][1]
        /\ (result.confidence >= 650 /\ result.confidence < 750)
              => /\ result.message_type = "faq_answer"
                 /\ result.response = retrieved[1][1]
        /\ result.confidence < 650
              => /\ result.message_type = "low_confidence_answer"
                 /\ result.response = retrieved[1][1] \o Hint
        /\ retrieved[1][1] = CouldNotFind
              => /\ result.confidence = 0
                 /\ result.message_type = "low_confidence_answer"
                 /\ result.response = retrieved[1][1] \o Hint

\* a general question for which the retrieval found no chunk over the
\* threshold
C26_Witness ==
    /\ FaqTurn
    /\ message = "why?"
    /\ retrieved[1] = <<CouldNotFind, 0, <<>>>>
    /\ result.message_type = "low_confidence_answer"
    /\ result.response = CouldNotFind \o Hint
\* the turn was a fees or academic one for which the lookup gave no record
AbsentRecordTurn ==
    /\ Answered
    /\ \/ result.category = "fees" /\ records.invoice # "rows"
       \/ result.category = "academic" /\ records.academic # "rows"

\* C28: a fees or academic turn whose record is absent, or whose lookup
\* fails, asks the retrieval engine the extracted question, and returns the
\* sentence that asks for the application number only when the retrieval
\* confidence is under 0.65.
C28_AbsentRecordAsksRetrieval ==
    AbsentRecordTurn =>
        /\ asked = <<QuestionOf(message)>>
        /\ Len(retrieved) = 1
        /\ Contains(result.response, "application number")
              => retrieved[1][2] < 650
\* C29: under every interleaving of the calls of query by different workers,
\* the answer of a call is written under the prompt built for the salutation
\* of that call and for its question.
C29_OwnPrompt ==
    \A t \in DOMAIN queries :
        (queries[t].pc = "returned" /\ queries[t].synthesized) =>
            /\ queries[t].prompt.salutation = queries[t].salutation
            /\ queries[t].prompt.question = queries[t].question
\* the live workers of id that are not at the last step of their own
\* _cleanup (after their own write of "Stopped")
RunningWorkers(id) == {w \in LiveWorkers(id) : worker[w].pc # "stamp"}

\* C30: whenever the status of an identity reads Stopped, no worker thread
\* of that identity is running: a worker that exits late never writes its
\* exit over the record while a newer worker of the identity is alive.
C30_StoppedMeansNoWorker ==
    \A id \in Ids : StatusOf(id) = "Stopped" => RunningWorkers(id) = {}

====
